---- MODULE Spec2Model ----
(***************************************************************************)
(* Model of the code generated by #[derive(InternedId)] (src/src/lib.rs)   *)
(* for the identifier kinds declared in src/tests/integration_tests.rs,    *)
(* driven by a bounded number of threads that construct identifiers        *)
(* concurrently.                                                           *)
(*                                                                         *)
(* A text is a sequence of bytes.  Memory is a heap of immutable leaked    *)
(* allocations; an Interned<str> is a fat pointer [ptr, len] into it.      *)
(* Each kind owns one static interner: a lazily created set of fat         *)
(* pointers guarded by a reader/writer lock.                               *)
(***************************************************************************)
EXTENDS Integers, Sequences, FiniteSets, TLC

VARIABLES
    created,    \* interner name -> has the static's table been created
    table,      \* interner name -> set of canonical entries (fat pointers)
    heap,       \* address -> bytes stored there (leaked, never freed)
    rw,         \* interner name -> the threads holding the table's write lock
    pc,         \* thread -> position inside new()
    arg,        \* thread -> [kind, text] of the call in progress
    passed,     \* thread -> the text new() handed to intern()
    slow,       \* thread -> the read-locked lookup missed
    result,     \* thread -> None, or the identifier its finished call returned
    returned,   \* every [kind, text, id] any call of new() has returned
    last,       \* the last operation of the generated API a caller made
    slot        \* None, or [kind, id]: a mutable identifier variable

vars == <<created, table, heap, rw, pc, arg, passed, slow, result, returned,
          last, slot>>

\* The variables only the callers of the trait implementations use.
api == <<last, slot>>

----------------------------------------------------------------------------
(* Bounds and inputs *)

NumThreads == 2

Threads == 1..NumThreads

None == [none |-> TRUE]

\* The identifier kinds of the integration tests.
Kinds == {"SpellId", "ItemId"}

\* The empty text, a NUL byte followed by a newline, and the two UTF-8 bytes
\* of a non-ASCII character (U+00E9), a text of the same length.
Texts == {<<>>, <<0, 10>>, <<195, 169>>}

\* Address of a zero-sized allocation (NonNull::dangling for align 1).
Dangling == 1

----------------------------------------------------------------------------
(* Pure helpers of the generated code *)

\* One static name whatever the struct is called.
interner_name_fixed(name) == "SPELLID_INTERNER"

\* The static's name: the struct name uppercased, followed by _INTERNER.
interner_name(name) ==
    CASE name = "SpellId" -> "SPELLID_INTERNER"
      [] name = "ItemId"  -> "ITEMID_INTERNER"

Interners == {interner_name(k) : k \in Kinds}

\* The bytes a fat pointer views.
Deref(hp, view) == SubSeq(hp[view.ptr], 1, view.len)

\* as_str slicing one byte short.
as_str_short(id) == [ptr |-> id.ptr, len |-> IF id.len > 0 THEN id.len - 1 ELSE 0]

\* as_str: the wrapped &'static str, i.e. the fat pointer itself.
as_str(id) == [ptr |-> id.ptr, len |-> id.len]

\* Equality that looks at the lengths only.
IdEqLen(a, b) == a.len = b.len

\* Derived PartialEq on the newtype: equality of the wrapped Interned<str>,
\* which compares the references (address and length), not the bytes.
IdEq(a, b) == a.ptr = b.ptr /\ a.len = b.len

\* A hasher with fixed keys (DefaultHasher::new()): its result is a function
\* of the words written to it.  The result is narrower than what is written
\* (64 bits for two 64-bit words), so it cannot tell all inputs apart; here
\* the mix is folded into 2 bits, fewer values than a table can hold entries.
HasherFinish(words) == (words[1] * 31 + words[2] * 131 + 7) % 4

\* Derived Hash on the newtype: writes the wrapped reference (length, then
\* address) to the hasher, never the bytes.
IdHash(id) == HasherFinish(<<id.len, id.ptr>>)

\* Upper limit on heap cells; |Kinds| * |Texts| allocations never reach it.
MaxHeap == 1 + Cardinality(Kinds) * Cardinality(Texts) + 1

----------------------------------------------------------------------------
(* The static interner of a kind and the steps of intern() on it *)

\* A const item instead of a static: every use is a fresh, empty interner.
CONST_ITEM(name) == [created |-> FALSE, set |-> {}]

\* static <NAME>_INTERNER: one table per name, alive for the whole process.
STATIC(name) == [created |-> created[name], set |-> table[name]]

\* Box::leak of an owned copy of t: a fresh cell holding t's bytes, or the
\* dangling address when t is empty (no allocation is made for zero bytes).
leak(hp, t) ==
    IF Len(t) = 0
    THEN [heap |-> hp, ref |-> [ptr |-> Dangling, len |-> 0]]
    ELSE [heap |-> Append(hp, t), ref |-> [ptr |-> Len(hp) + 1, len |-> Len(t)]]

\* HashSet::get by content: the entries whose bytes equal t.
Lookup(set, hp, t) == {e \in set : Deref(hp, e) = t}

\* The call returns: Self(interned) is handed to the caller.
Finish(th, e) ==
    LET r == [kind |-> arg[th].kind, text |-> arg[th].text, id |-> e]
    IN  /\ result' = [result EXCEPT ![th] = e]
        /\ returned' = returned \cup {r}
        /\ pc' = [pc EXCEPT ![th] = "idle"]

\* intern: self.0.get_or_init(Default::default), the table's lazy creation.
get_or_init(c, n) == [c EXCEPT ![n] = TRUE]

\* intern, up to the end of its read-locked block, called by thread th for
\* kind k with the caller's text t and the text p handed to intern: creates
\* the table on first use, takes the read lock (possible once no writer holds
\* it), looks p up and drops the guard.  A hit returns the canonical entry, a
\* miss goes on to the write lock.  The block only reads, so it is one step.
intern_read(th, k, t, p) ==
    LET n   == interner_name(k)
        hit == Lookup(STATIC(n).set, heap, p)
    IN  /\ pc[th] = "idle"
        /\ rw[n] = {}
        /\ arg' = [arg EXCEPT ![th] = [kind |-> k, text |-> t]]
        /\ passed' = [passed EXCEPT ![th] = p]
        /\ created' = get_or_init(created, n)
        /\ IF hit # {}
           THEN /\ \E e \in hit :
                     /\ result' = [result EXCEPT ![th] = e]
                     /\ returned' = returned \cup {[kind |-> k, text |-> t, id |-> e]}
                /\ slow' = [slow EXCEPT ![th] = FALSE]
                /\ UNCHANGED pc
           ELSE /\ slow' = [slow EXCEPT ![th] = TRUE]
                /\ result' = [result EXCEPT ![th] = None]
                /\ pc' = [pc EXCEPT ![th] = "wlock"]
                /\ UNCHANGED returned
        /\ UNCHANGED <<table, heap, rw>>

\* The bytes of t before its first NUL byte.
CStr(t) ==
    LET nul == {i \in 1..Len(t) : t[i] = 0}
    IN  IF nul = {} THEN t
        ELSE SubSeq(t, 1, (CHOOSE i \in nul : \A j \in nul : i <= j) - 1)

\* new handing intern the text cut at its first NUL byte.
new_cstr(th, k, t) == intern_read(th, k, t, CStr(t))

\* new giving up, with nothing to return, when the table is write-locked.
new_try(th, k, t) ==
    IF rw[interner_name(k)] = {}
    THEN intern_read(th, k, t, t)
    ELSE /\ pc[th] = "idle"
         /\ arg' = [arg EXCEPT ![th] = [kind |-> k, text |-> t]]
         /\ passed' = [passed EXCEPT ![th] = t]
         /\ result' = [result EXCEPT ![th] = None]
         /\ slow' = [slow EXCEPT ![th] = FALSE]
         /\ UNCHANGED <<created, table, heap, rw, pc, returned>>

\* pub fn new(id: &str) -> Self { Self(INTERNER.intern(id)) }: the call enters
\* intern() on the kind's static with the caller's text, unchanged.
new(th, k, t) == intern_read(th, k, t, t)

\* intern: lock.write()
WriteAcquire(th) ==
    LET n == interner_name(arg[th].kind)
    IN  /\ pc[th] = "wlock"
        /\ rw[n] = {}
        /\ rw' = [rw EXCEPT ![n] = {th}]
        /\ pc' = [pc EXCEPT ![th] = "wheld"]
        /\ UNCHANGED <<created, table, heap, arg, passed, slow, result, returned>>

\* The second lookup returning its hit without dropping the write guard.
WriteInsert_keep(th) ==
    LET n   == interner_name(arg[th].kind)
        hit == Lookup(STATIC(n).set, heap, passed[th])
        lk  == leak(heap, passed[th])
    IN  /\ pc[th] = "wheld"
        /\ IF hit # {}
           THEN /\ \E e \in hit : Finish(th, e)
                /\ UNCHANGED <<table, heap, rw>>
           ELSE /\ Len(lk.heap) <= MaxHeap
                /\ rw' = [rw EXCEPT ![n] = {}]
                /\ heap' = lk.heap
                /\ table' = [table EXCEPT ![n] = STATIC(n).set \cup {lk.ref}]
                /\ Finish(th, lk.ref)
        /\ UNCHANGED <<created, arg, passed, slow>>

\* intern: second lookup under the write lock, else leak and insert.
WriteInsert(th) ==
    LET n   == interner_name(arg[th].kind)
        hit == Lookup(STATIC(n).set, heap, passed[th])
        lk  == leak(heap, passed[th])
    IN  /\ pc[th] = "wheld"
        /\ rw' = [rw EXCEPT ![n] = {}]
        /\ IF hit # {}
           THEN /\ \E e \in hit : Finish(th, e)
                /\ UNCHANGED <<table, heap>>
           ELSE /\ Len(lk.heap) <= MaxHeap
                /\ heap' = lk.heap
                /\ table' = [table EXCEPT ![n] = STATIC(n).set \cup {lk.ref}]
                /\ Finish(th, lk.ref)
        /\ UNCHANGED <<created, arg, passed, slow>>

----------------------------------------------------------------------------

Init ==
    /\ created = [n \in Interners |-> FALSE]
    /\ table = [n \in Interners |-> {}]
    /\ heap = << <<>> >>
    /\ rw = [n \in Interners |-> {}]
    /\ pc = [th \in Threads |-> "idle"]
    /\ arg = [th \in Threads |-> None]
    /\ passed = [th \in Threads |-> <<>>]
    /\ slow = [th \in Threads |-> FALSE]
    /\ result = [th \in Threads |-> None]
    /\ returned = {}
    /\ last = [op |-> "none"]
    /\ slot = None

Next ==
    \/ \E th \in Threads, k \in Kinds, t \in Texts : new(th, k, t) /\ UNCHANGED api
    \/ \E th \in Threads : WriteAcquire(th) /\ UNCHANGED api
    \/ \E th \in Threads : WriteInsert(th) /\ UNCHANGED api

Spec == Init /\ [][Next]_vars

\* Threads are scheduled fairly: a thread that can take or release the write
\* lock eventually does.  Callers are free to stop calling new().
FairSpec ==
    /\ Spec
    /\ \A th \in Threads :
          /\ WF_vars(WriteAcquire(th) /\ UNCHANGED api)
          /\ WF_vars(WriteInsert(th) /\ UNCHANGED api)

----------------------------------------------------------------------------
(* The trait implementations, called one after another by one thread *)

\* The calling thread.
Main == CHOOSE th \in Threads : \A o \in Threads : th <= o

\* A string value of the serialization data model.
Str(t) == [type |-> "str", val |-> t]

\* The values a deserializer may hold: a string, a number, an object.
WireInputs ==
    {Str(t) : t \in Texts} \cup {[type |-> "u64", val |-> <<7>>], [type |-> "map", val |-> <<>>]}

\* The serializers and formatters a caller may pass: one that accepts what is
\* written to it and one whose sink reports an error.
Sinks == {"accepts", "fails"}

\* Serializer::serialize_str: one string value, or the serializer's error.
serialize_str(ser, s) ==
    IF ser = "accepts" THEN [ok |-> TRUE, out |-> <<Str(s)>>]
    ELSE [ok |-> FALSE, out |-> <<>>]

\* Formatter::write_str: the bytes as they are, or the formatter's error.
write_str(f, s) ==
    IF f = "accepts" THEN [ok |-> TRUE, out |-> s]
    ELSE [ok |-> FALSE, out |-> <<>>]

\* String::deserialize: the string's content, or an invalid-type error when
\* the value is not a string.
StringDeserialize(v) ==
    IF v.type = "str" THEN [ok |-> TRUE, val |-> v.val]
    ELSE [ok |-> FALSE, err |-> <<"invalid type", v.type>>]

\* The identifier values a caller has at hand, each with its kind.
Ids == {[kind |-> r.kind, id |-> r.id] : r \in returned}

\* The caller is between two calls.
Ready == pc[Main] = "idle"

\* Self::new called directly.
api_new(k, t) ==
    /\ new(Main, k, t)
    /\ last' = [op |-> "new", kind |-> k, text |-> t]
    /\ UNCHANGED slot

\* From<&str>::from with the text cut at its first NUL byte.
from_str_cstr(k, t) ==
    /\ new(Main, k, CStr(t))
    /\ last' = [op |-> "from_str", kind |-> k, text |-> t]
    /\ UNCHANGED slot

\* impl From<&str>: fn from(s: &str) -> Self { Self::new(s) }
from_str(k, t) ==
    /\ new(Main, k, t)
    /\ last' = [op |-> "from_str", kind |-> k, text |-> t]
    /\ UNCHANGED slot

\* impl From<String>: fn from(s: String) -> Self { Self::new(&s) }; the
\* borrow of the owned string views the same bytes.
from_string(k, t) ==
    /\ new(Main, k, SubSeq(t, 1, Len(t)))
    /\ last' = [op |-> "from_string", kind |-> k, text |-> t]
    /\ UNCHANGED slot

\* Default interning a one-byte placeholder.
default_placeholder(k) ==
    /\ new(Main, k, <<0>>)
    /\ last' = [op |-> "default", kind |-> k, text |-> <<>>]
    /\ UNCHANGED slot

\* impl Default: fn default() -> Self { Self::new("") }
default(k) ==
    /\ new(Main, k, <<>>)
    /\ last' = [op |-> "default", kind |-> k, text |-> <<>>]
    /\ UNCHANGED slot

\* Serialize writing the kind's name as a wrapper around the string.
serialize_wrapped(v, ser) ==
    /\ Ready
    /\ v \in Ids
    /\ last' = [op |-> "serialize", kind |-> v.kind, id |-> v.id, sink |-> ser,
                res |-> [ok |-> ser = "accepts",
                         out |-> IF ser = "accepts"
                                 THEN <<[type |-> "newtype", val |-> v.kind],
                                        Str(Deref(heap, as_str(v.id)))>>
                                 ELSE <<>>]]
    /\ UNCHANGED <<created, table, heap, rw, pc, arg, passed, slow, result,
                   returned, slot>>

\* Serialize writing one byte less than the stored text.
serialize_short(v, ser) ==
    /\ Ready
    /\ v \in Ids
    /\ last' = [op |-> "serialize", kind |-> v.kind, id |-> v.id, sink |-> ser,
                res |-> serialize_str(ser, Deref(heap, as_str_short(v.id)))]
    /\ UNCHANGED <<created, table, heap, rw, pc, arg, passed, slow, result,
                   returned, slot>>

\* impl Serialize: serializer.serialize_str(self.as_str())
serialize(v, ser) ==
    /\ Ready
    /\ v \in Ids
    /\ last' = [op |-> "serialize", kind |-> v.kind, id |-> v.id, sink |-> ser,
                res |-> serialize_str(ser, Deref(heap, as_str(v.id)))]
    /\ UNCHANGED <<created, table, heap, rw, pc, arg, passed, slow, result,
                   returned, slot>>

\* impl Display: write!(f, "{}", self.as_str())
fmt(v, f) ==
    /\ Ready
    /\ v \in Ids
    /\ last' = [op |-> "display", kind |-> v.kind, id |-> v.id, sink |-> f,
                res |-> write_str(f, Deref(heap, as_str(v.id)))]
    /\ UNCHANGED <<created, table, heap, rw, pc, arg, passed, slow, result,
                   returned, slot>>

\* The identifier whose serialization v is, when the caller's last operation
\* was the successful serialization of an identifier of kind k into v.
SerializedFrom(k, v) ==
    IF last.op = "serialize" /\ last.kind = k /\ last.res.ok /\ last.res.out = <<v>>
    THEN last.id
    ELSE None

\* The values the next deserialization may read: any input, or what the last
\* serialization wrote.
Readable ==
    WireInputs \cup
        (IF last.op = "serialize" THEN {last.res.out[i] : i \in 1..Len(last.res.out)} ELSE {})

\* Deserialize ignoring the string it read and building the default.
deserialize_default(k, v) ==
    LET s == StringDeserialize(v)
    IN  /\ Ready
        /\ last' = [op |-> "deserialize", kind |-> k, input |-> v, ok |-> s.ok,
                    from |-> SerializedFrom(k, v)]
        /\ IF s.ok
           THEN new(Main, k, <<>>)
           ELSE UNCHANGED <<created, table, heap, rw, pc, arg, passed, slow,
                            result, returned>>
        /\ UNCHANGED slot

\* Deserialize falling back to the empty string when no string was read.
deserialize_lenient(k, v) ==
    LET s == StringDeserialize(v)
    IN  /\ Ready
        /\ last' = [op |-> "deserialize", kind |-> k, input |-> v, ok |-> TRUE,
                    from |-> SerializedFrom(k, v)]
        /\ new(Main, k, IF s.ok THEN s.val ELSE <<>>)
        /\ UNCHANGED slot

\* Deserialize interning before it looks at the error: new is called with
\* whatever was read, the empty string when nothing was.
deserialize_eager(k, v) ==
    LET s == StringDeserialize(v)
    IN  /\ Ready
        /\ last' = [op |-> "deserialize", kind |-> k, input |-> v, ok |-> s.ok,
                    from |-> SerializedFrom(k, v)]
        /\ new(Main, k, IF s.ok THEN s.val ELSE <<>>)
        /\ UNCHANGED slot

\* impl Deserialize: let s = String::deserialize(deserializer)?;
\* Ok(Self::new(&s)).  The error is returned before new is reached.
deserialize(k, v) ==
    LET s == StringDeserialize(v)
    IN  /\ Ready
        /\ last' = [op |-> "deserialize", kind |-> k, input |-> v, ok |-> s.ok,
                    from |-> SerializedFrom(k, v)]
        /\ IF s.ok
           THEN new(Main, k, s.val)
           ELSE UNCHANGED <<created, table, heap, rw, pc, arg, passed, slow,
                            result, returned>>
        /\ UNCHANGED slot

----------------------------------------------------------------------------
(* Reflection: a mutable identifier variable and the values applied to it *)

\* TypePath::type_path: concat!(module_path!(), "::", name).
type_path(k) == <<"integration_tests", k>>

\* A value behind &dyn PartialReflect: an identifier of some kind, or a value
\* of a type that is no identifier kind.
Reflected(v) == [type |-> type_path(v.kind), id |-> v.id]

ReflectValues ==
    {Reflected(v) : v \in Ids} \cup {[type |-> <<"alloc", "String">>, id |-> None]}

\* A downcast that matches whatever the value's type is.
try_downcast_always(k, value) == [some |-> TRUE, val |-> value.id]

\* A downcast that never matches.
try_downcast_never(k, value) == [some |-> FALSE, val |-> None]

\* value.try_downcast_ref::<Self>(): the value as Self when its type is Self.
try_downcast_ref(k, value) ==
    IF value.type = type_path(k)
    THEN [some |-> TRUE, val |-> value.id]
    ELSE [some |-> FALSE, val |-> None]

\* let mut id = <an identifier>: the variable takes a copy of the value.
let_mut(v) ==
    /\ Ready
    /\ v \in Ids
    /\ slot' = [kind |-> v.kind, id |-> v.id]
    /\ last' = [op |-> "let", value |-> Reflected(v)]
    /\ UNCHANGED <<created, table, heap, rw, pc, arg, passed, slow, result, returned>>

\* PartialReflect::apply: if let Some(other) = downcast { *self = *other; }
apply(value) ==
    /\ Ready
    /\ slot # None
    /\ value \in ReflectValues
    /\ LET other == try_downcast_ref(slot.kind, value)
       IN  /\ slot' = IF other.some THEN [slot EXCEPT !.id = other.val] ELSE slot
           /\ last' = [op |-> "apply", value |-> value, res |-> [ok |-> TRUE]]
    /\ UNCHANGED <<created, table, heap, rw, pc, arg, passed, slow, result, returned>>

\* PartialReflect::try_apply: as apply, else Err(MismatchedTypes) naming the
\* value's type path and Self's.
try_apply(value) ==
    /\ Ready
    /\ slot # None
    /\ value \in ReflectValues
    /\ LET other == try_downcast_ref(slot.kind, value)
       IN  IF other.some
           THEN /\ slot' = [slot EXCEPT !.id = other.val]
                /\ last' = [op |-> "try_apply", value |-> value, res |-> [ok |-> TRUE]]
           ELSE /\ slot' = slot
                /\ last' = [op |-> "try_apply", value |-> value,
                            res |-> [ok |-> FALSE,
                                     err |-> [variant |-> "MismatchedTypes",
                                              from_type |-> value.type,
                                              to_type |-> type_path(slot.kind)]]]
    /\ UNCHANGED <<created, table, heap, rw, pc, arg, passed, slow, result, returned>>

\* Reflect::set: *self = *value.downcast()?; the box comes back on a mismatch.
Reflect_set(value) ==
    /\ Ready
    /\ slot # None
    /\ value \in ReflectValues
    /\ IF value.type = type_path(slot.kind)
       THEN /\ slot' = [slot EXCEPT !.id = value.id]
            /\ last' = [op |-> "set", value |-> value, res |-> [ok |-> TRUE]]
       ELSE /\ slot' = slot
            /\ last' = [op |-> "set", value |-> value,
                        res |-> [ok |-> FALSE, err |-> value]]
    /\ UNCHANGED <<created, table, heap, rw, pc, arg, passed, slow, result, returned>>

\* A caller using construction, conversion, formatting and serialization,
\* one call at a time.
NextApi ==
    \/ \E k \in Kinds, t \in Texts : api_new(k, t)
    \/ \E k \in Kinds, t \in Texts : from_str(k, t)
    \/ \E k \in Kinds, t \in Texts : from_string(k, t)
    \/ \E k \in Kinds : default(k)
    \/ \E v \in Ids, ser \in Sinks : serialize(v, ser)
    \/ \E v \in Ids, f \in Sinks : fmt(v, f)
    \/ \E k \in Kinds, v \in Readable : deserialize(k, v)
    \/ WriteAcquire(Main) /\ UNCHANGED api
    \/ WriteInsert(Main) /\ UNCHANGED api

SpecApi == Init /\ [][NextApi]_vars

\* A caller constructing identifiers and assigning them through reflection.
NextReflect ==
    \/ \E k \in Kinds, t \in Texts : api_new(k, t)
    \/ WriteAcquire(Main) /\ UNCHANGED api
    \/ WriteInsert(Main) /\ UNCHANGED api
    \/ \E v \in Ids : let_mut(v)
    \/ \E value \in ReflectValues : apply(value)
    \/ \E value \in ReflectValues : try_apply(value)
    \/ \E value \in ReflectValues : Reflect_set(value)

SpecReflect == Init /\ [][NextReflect]_vars

----------------------------------------------------------------------------
(* Operations that only read an identifier *)

\* A call that returns rec to the caller and writes nothing else.
Query(rec) ==
    /\ Ready
    /\ last' = rec
    /\ UNCHANGED <<created, table, heap, rw, pc, arg, passed, slow, result,
                   returned, slot>>

\* as_str called by the user: the text the view reads.
call_as_str(v) ==
    /\ v \in Ids
    /\ Query([op |-> "as_str", kind |-> v.kind, id |-> v.id,
              res |-> Deref(heap, as_str(v.id))])

\* impl Deref: fn deref(&self) -> &str { self.0.0 }
deref(v) ==
    /\ v \in Ids
    /\ Query([op |-> "deref", kind |-> v.kind, id |-> v.id,
              res |-> Deref(heap, [ptr |-> v.id.ptr, len |-> v.id.len])])

\* a == b on two identifiers of one kind.
eq(v, w) ==
    /\ v \in Ids /\ w \in Ids
    /\ v.kind = w.kind
    /\ Query([op |-> "eq", kind |-> v.kind, id |-> v.id, other |-> w.id,
              res |-> IdEq(v.id, w.id)])

\* Hash::hash into a DefaultHasher, as the standard containers do.
hash(v) ==
    /\ v \in Ids
    /\ Query([op |-> "hash", kind |-> v.kind, id |-> v.id, res |-> IdHash(v.id)])

\* #[derive(Clone, Copy)]: the copy is the same reference.
clone(v) ==
    /\ v \in Ids
    /\ Query([op |-> "clone", kind |-> v.kind, id |-> v.id,
              res |-> [ptr |-> v.id.ptr, len |-> v.id.len]])

\* PartialReflect::clone_value: Box::new(*self)
clone_value(v) ==
    /\ v \in Ids
    /\ Query([op |-> "clone_value", kind |-> v.kind, id |-> v.id,
              res |-> Reflected([kind |-> v.kind,
                                 id |-> [ptr |-> v.id.ptr, len |-> v.id.len]])])

\* FromReflect::from_reflect: reflect.try_downcast_ref::<Self>().copied()
from_reflect(k, value) ==
    /\ value \in ReflectValues
    /\ Query([op |-> "from_reflect", kind |-> k, value |-> value,
              res |-> try_downcast_ref(k, value)])

\* reflect_hash giving no hash.
reflect_hash_none(v) ==
    /\ v \in Ids
    /\ Query([op |-> "reflect_hash", kind |-> v.kind, id |-> v.id,
              res |-> [some |-> FALSE, val |-> 0]])

\* PartialReflect::reflect_hash: Some(hasher.finish()) after self.hash on a
\* DefaultHasher::new().
reflect_hash(v) ==
    /\ v \in Ids
    /\ Query([op |-> "reflect_hash", kind |-> v.kind, id |-> v.id,
              res |-> [some |-> TRUE, val |-> IdHash(v.id)]])

\* PartialReflect::reflect_partial_eq:
\* value.try_downcast_ref::<Self>().map(|other| self == other)
reflect_partial_eq(v, value) ==
    /\ v \in Ids
    /\ value \in ReflectValues
    /\ LET other == try_downcast_ref(v.kind, value)
       IN  Query([op |-> "reflect_partial_eq", kind |-> v.kind, id |-> v.id,
                  value |-> value,
                  res |-> IF other.some
                          THEN [some |-> TRUE, val |-> IdEq(v.id, other.val)]
                          ELSE [some |-> FALSE, val |-> FALSE]])

\* A caller constructing identifiers, comparing and hashing them.
NextQuery ==
    \/ \E k \in Kinds, t \in Texts : api_new(k, t)
    \/ WriteAcquire(Main) /\ UNCHANGED api
    \/ WriteInsert(Main) /\ UNCHANGED api
    \/ \E v, w \in Ids : eq(v, w)
    \/ \E v \in Ids : hash(v)
    \/ \E v \in Ids : reflect_hash(v)
    \/ \E v \in Ids, value \in ReflectValues : reflect_partial_eq(v, value)

SpecQuery == Init /\ [][NextQuery]_vars

----------------------------------------------------------------------------
(* The derive macro naming the static of a struct *)

\* The characters struct names are written with here.
Alphabet == {"I", "d", "D"}

\* Longest struct name considered.
MaxNameLen == 2

\* Struct names: the non-empty sequences of characters up to that length.
StructNames == UNION {[1..n -> Alphabet] : n \in 1..MaxNameLen}

\* char::to_uppercase on the characters of the alphabet.
to_uppercase_char(c) == IF c = "d" THEN "D" ELSE c

\* name.to_string().to_uppercase(): every character uppercased.
to_uppercase(name) == [i \in 1..Len(name) |-> to_uppercase_char(name[i])]

\* format_ident!("{}_INTERNER", name.to_string().to_uppercase())
format_ident(name) ==
    to_uppercase(name) \o <<"_", "I", "N", "T", "E", "R", "N", "E", "R">>

\* #[derive(InternedId)] on struct `name`, after the derive on another struct
\* of the same module (if any): the static item the expansion declares.
derive_interned_id(name) ==
    /\ name \in StructNames
    /\ last.op \in {"none", "derive"}
    /\ last' = [op |-> "derive", name |-> name, interner_name |-> format_ident(name),
                before |-> IF last.op = "derive"
                           THEN [name |-> last.name, interner_name |-> last.interner_name]
                           ELSE None]
    /\ UNCHANGED <<created, table, heap, rw, pc, arg, passed, slow, result,
                   returned, slot>>

\* The derive expanded for one struct after another.
NextDerive == \E name \in StructNames : derive_interned_id(name)

SpecDerive == Init /\ [][NextDerive]_vars

----------------------------------------------------------------------------
(* Every operation of the generated code, called by one thread *)

\* The texts this caller constructs identifiers from.
FrameTexts == {<<>>, <<0, 10>>}

\* The values this caller deserializes from.
FrameReadable == {v \in Readable : v.type = "str" => v.val \in FrameTexts}

NextAll ==
    \/ \E k \in Kinds, t \in FrameTexts : api_new(k, t)
    \/ \E k \in Kinds, t \in FrameTexts : from_str(k, t)
    \/ \E k \in Kinds, t \in FrameTexts : from_string(k, t)
    \/ \E k \in Kinds : default(k)
    \/ \E k \in Kinds, v \in FrameReadable : deserialize(k, v)
    \/ WriteAcquire(Main) /\ UNCHANGED api
    \/ WriteInsert(Main) /\ UNCHANGED api
    \/ \E v \in Ids, ser \in Sinks : serialize(v, ser)
    \/ \E v \in Ids, f \in Sinks : fmt(v, f)
    \/ \E v \in Ids : call_as_str(v)
    \/ \E v \in Ids : deref(v)
    \/ \E v, w \in Ids : eq(v, w)
    \/ \E v \in Ids : hash(v)
    \/ \E v \in Ids : clone(v)
    \/ \E v \in Ids : clone_value(v)
    \/ \E k \in Kinds, value \in ReflectValues : from_reflect(k, value)
    \/ \E v \in Ids : reflect_hash(v)
    \/ \E v \in Ids, value \in ReflectValues : reflect_partial_eq(v, value)
    \/ \E v \in Ids : let_mut(v)
    \/ \E value \in ReflectValues : apply(value)
    \/ \E value \in ReflectValues : try_apply(value)
    \/ \E value \in ReflectValues : Reflect_set(value)

SpecAll == Init /\ [][NextAll]_vars

----------------------------------------------------------------------------
(* Properties *)

\* The records returned so far for kind k.
ReturnedOf(k) == {r \in returned : r.kind = k}

\* Thread th has finished a call and holds the identifier it returned.
Holds(th) == pc[th] = "idle" /\ result[th] # None

\* The texts a table holds, read through its entries.
InternedTexts(tbl, hp, n) == {Deref(hp, e) : e \in tbl[n]}

\* C1: determinism of interning.  Any two calls new(t) of one kind with the
\* same text, whatever was interned before them, returned identifiers that
\* are equal and whose as_str() views are the same storage location (same
\* address and length), not merely the same bytes.
C1_Determinism ==
    \A r1, r2 \in returned :
        (r1.kind = r2.kind /\ r1.text = r2.text)
            => /\ IdEq(r1.id, r2.id)
               /\ as_str(r1.id) = as_str(r2.id)

\* A call found its text already interned (it returned from the read-locked
\* lookup) in a table that holds other texts as well.
C1_Witness ==
    \E th \in Threads :
        /\ Holds(th)
        /\ ~slow[th]
        /\ result[th] \in table[interner_name(arg[th].kind)]
        /\ Cardinality(table[interner_name(arg[th].kind)]) >= 2

\* C2: concurrent convergence.  The identifiers held by the threads that
\* called new(t) on the same kind with the same text are all equal and their
\* as_str() views are one storage location, under every interleaving.
C2_ConcurrentConvergence ==
    \A th1, th2 \in Threads :
        (Holds(th1) /\ Holds(th2) /\ arg[th1] = arg[th2])
            => /\ IdEq(result[th1], result[th2])
               /\ as_str(result[th1]).ptr = as_str(result[th2]).ptr
               /\ as_str(result[th1]).len = as_str(result[th2]).len

\* Two threads raced: both looked the same text up while it was absent, both
\* went on to the write lock, and both have returned.
C2_Witness ==
    \E th1, th2 \in Threads :
        /\ th1 # th2
        /\ Holds(th1) /\ Holds(th2)
        /\ arg[th1] = arg[th2]
        /\ slow[th1] /\ slow[th2]

\* C3: discrimination.  Two calls of one kind with different texts returned
\* identifiers that are not equal, whatever else was interned.
C3_Discrimination ==
    \A k \in Kinds : \A r1, r2 \in ReturnedOf(k) :
        r1.text # r2.text => ~IdEq(r1.id, r2.id)

\* Every text has been interned for one kind, so each pair of them is told
\* apart with a third one in the table.
C3_Witness ==
    \E k \in Kinds : {r.text : r \in ReturnedOf(k)} = Texts

\* C4: two identifiers of a kind are equal iff they reference the same
\* canonical entry of the kind's table, and that is the case iff their
\* stored texts are equal.
C4_EqIffSameEntry ==
    \A k \in Kinds : \A r1, r2 \in ReturnedOf(k) :
        LET set == table[interner_name(k)]
            e1  == Lookup(set, heap, Deref(heap, as_str(r1.id)))
            e2  == Lookup(set, heap, Deref(heap, as_str(r2.id)))
        IN  /\ e1 = {r1.id}
            /\ e2 = {r2.id}
            /\ IdEq(r1.id, r2.id) <=> e1 = e2
            /\ IdEq(r1.id, r2.id) <=> Deref(heap, as_str(r1.id)) = Deref(heap, as_str(r2.id))

\* A kind with identifiers for two texts of the same length, each returned
\* to some thread.
C4_Witness ==
    \E k \in Kinds : \E r1, r2 \in ReturnedOf(k) :
        /\ r1.text # r2.text
        /\ Len(r1.text) = Len(r2.text)
        /\ \E th \in Threads : Holds(th) /\ arg[th].kind = k /\ result[th] = r1.id

C6_KindIsolation ==
    [][ /\ \A k \in Kinds :
             LET n == interner_name(k)
             IN  (table'[n] # table[n] \/ created'[n] # created[n])
                    => /\ \E th \in Threads : pc'[th] # pc[th] /\ arg'[th].kind = k
                       /\ \A k2 \in Kinds \ {k} :
                              /\ table'[interner_name(k2)] = table[interner_name(k2)]
                              /\ created'[interner_name(k2)] = created[interner_name(k2)]
        /\ \A r1, r2 \in returned' :
             (r1.kind # r2.kind /\ r1.text = r2.text)
                => /\ Deref(heap', as_str(r1.id)) = r1.text
                   /\ Deref(heap', as_str(r2.id)) = r1.text
      ]_vars

\* Two kinds have both interned the same non-empty text, each in its own
\* table.
C6_Witness ==
    \E r1, r2 \in returned :
        /\ r1.kind # r2.kind
        /\ r1.text = r2.text
        /\ Len(r1.text) > 0
        /\ r1.id \in table[interner_name(r1.kind)]
        /\ r2.id \in table[interner_name(r2.kind)]

\* C7: a kind's table only grows.  Every step leaves every entry in place and
\* the set of interned texts after the step includes the set before it.
C7_TableOnlyGrows ==
    [][ \A n \in Interners :
            /\ table[n] \subseteq table'[n]
            /\ InternedTexts(table, heap, n) \subseteq InternedTexts(table', heap', n)
      ]_vars

\* A table has grown, insert after insert, to hold every text.
C7_Witness ==
    \E n \in Interners : InternedTexts(table, heap, n) = Texts

\* C8: for every text t (empty, with NUL and newline bytes, non-ASCII),
\* new(t).as_str() reads exactly t.
C8_AsStrIsText ==
    \A r \in returned : Deref(heap, as_str(r.id)) = r.text

\* Every text has been returned for every kind.
C8_Witness ==
    \A k \in Kinds : \A t \in Texts : \E r \in ReturnedOf(k) : r.text = t

\* C9: the text view is never invalidated.  An identifier that was returned
\* for text t still reads t after every later step of any thread on any kind,
\* and it still is the one canonical entry for t in its kind's table.
C9_NeverInvalidated ==
    [][ \A r \in returned :
            Deref(heap, as_str(r.id)) = r.text
                => /\ r \in returned'
                   /\ Deref(heap', as_str(r.id)) = r.text
                   /\ Lookup(table'[interner_name(r.kind)], heap', r.text) = {r.id}
      ]_vars

\* The identifier of the first allocation is still in place after three
\* later allocations.
C9_Witness ==
    \E r \in returned :
        /\ r.id.len > 0
        /\ Len(heap) >= r.id.ptr + 3
        /\ Deref(heap, as_str(r.id)) = r.text
        /\ r.id \in table[interner_name(r.kind)]

\* C10: construction never fails.  A call that has finished holds an
\* identifier returned for its text, whether the text was interned already
\* or not; a call holding the write lock can always complete; and a call can
\* start for every text whenever the table is not write-locked.
C10_NeverFails ==
    \A th \in Threads :
        /\ (pc[th] = "idle" /\ arg[th] # None)
              => /\ result[th] # None
                 /\ [kind |-> arg[th].kind, text |-> arg[th].text, id |-> result[th]]
                        \in returned
        /\ pc[th] = "wheld" => ENABLED WriteInsert(th)
        /\ pc[th] = "idle" =>
              \A k \in Kinds : \A t \in Texts :
                  rw[interner_name(k)] = {} => ENABLED new(th, k, t)

\* One thread's call inserted its text and another's found its text
\* interned, and both hold their identifiers.
C10_Witness ==
    \E th1, th2 \in Threads :
        /\ Holds(th1) /\ Holds(th2)
        /\ slow[th1] /\ result[th1] \in table[interner_name(arg[th1].kind)]
        /\ ~slow[th2] /\ result[th2] \in table[interner_name(arg[th2].kind)]

\* The operations that construct an identifier from a text.
Constructions == {"new", "from_str", "from_string", "default"}

\* The caller's last call has returned an identifier.
Done == Holds(Main)

\* What K::new(t) returns in the current state: the canonical entry of t in
\* the table of kind k.
Canonical(k, t) == Lookup(table[interner_name(k)], heap, t)

\* C11: round-trip law.  Deserializing, into the same kind, what the
\* serialization of an identifier wrote succeeds and returns an identifier
\* equal to the serialized one (the same canonical entry), whatever the
\* tables hold.
C11_RoundTrip ==
    (last.op = "deserialize" /\ last.from # None)
        => /\ last.ok
           /\ Done
           /\ IdEq(result[Main], last.from)
           /\ Canonical(last.kind, Deref(heap, as_str(last.from))) = {result[Main]}

\* An identifier with a non-empty text was serialized and read back while its
\* table held another text.
C11_Witness ==
    /\ last.op = "deserialize"
    /\ last.from # None
    /\ last.from.len > 0
    /\ Done
    /\ Cardinality(table[interner_name(last.kind)]) >= 2

\* C12: a successful serialization wrote exactly one value, a plain string
\* whose content is the identifier's stored text: what serializing an
\* ordinary string of that content writes, no index and no wrapper.
C12_SerializesAsPlainString ==
    (last.op = "serialize" /\ last.res.ok)
        => /\ Len(last.res.out) = 1
           /\ last.res.out[1].type = "str"
           /\ \E r \in ReturnedOf(last.kind) :
                 /\ r.id = last.id
                 /\ last.res.out[1].val = r.text
                 /\ last.res = serialize_str(last.sink, r.text)

\* An identifier whose text starts with a NUL byte was serialized.
C12_Witness ==
    /\ last.op = "serialize"
    /\ last.res.ok
    /\ \E r \in ReturnedOf(last.kind) :
          r.id = last.id /\ Len(r.text) > 0 /\ r.text[1] = 0

\* C13: deserializing a string value s into kind K is K::new(s).  The call
\* never errors, hands s unchanged to intern, and once it has returned its
\* result is the canonical entry of s in K's table, equal to every
\* identifier new(s) returned for K; K's table then holds s.
C13_DeserializeIsNew ==
    (last.op = "deserialize" /\ last.input.type = "str")
        => /\ last.ok
           /\ arg[Main] = [kind |-> last.kind, text |-> last.input.val]
           /\ passed[Main] = last.input.val
           /\ pc[Main] = "idle"
                 => /\ result[Main] # None
                    /\ Canonical(last.kind, last.input.val) = {result[Main]}
                    /\ last.input.val \in InternedTexts(table, heap, interner_name(last.kind))
                    /\ \A r \in ReturnedOf(last.kind) :
                          r.text = last.input.val => IdEq(r.id, result[Main])

\* A deserialization interned a non-empty string that was absent from a table
\* holding another text, and has returned.
C13_Witness ==
    /\ last.op = "deserialize"
    /\ last.input.type = "str"
    /\ Len(last.input.val) > 0
    /\ Done
    /\ slow[Main]
    /\ Cardinality(table[interner_name(last.kind)]) >= 2

\* new, as_str, equality and hashing have no error outcome: a construction
\* that has returned holds an identifier, and on every identifier at hand
\* as_str reads a text, equality is decided and the hash is a number.
TotalOnIds ==
    /\ (last.op \in Constructions /\ pc[Main] = "idle") => result[Main] # None
    /\ \A v \in Ids :
          /\ Deref(heap, as_str(v.id)) \in Seq(0..255)
          /\ \A w \in Ids : IdEq(v.id, w.id) \in BOOLEAN
          /\ IdHash(v.id) \in Nat

\* C14 as stated: deserialization returns an error when the source value is
\* not a string, and nothing else fails: new, as_str, equality, hashing,
\* display and serialization never produce an error.
C14_OnlyDeserializationFails ==
    /\ (last.op = "deserialize" /\ last.input.type # "str") => ~last.ok
    /\ last.op \in {"serialize", "display"} => last.res.ok
    /\ TotalOnIds

\* C14, amended: deserialization returns an error exactly when the source
\* value is not a string; new, as_str, equality and hashing never produce an
\* error; display and serialization return an error exactly when the
\* formatter or serializer they write to reports one, and add none of their
\* own.
C14_FailsOnlyOnNonStringOrSink ==
    /\ last.op = "deserialize" => (last.ok <=> last.input.type = "str")
    /\ last.op \in {"serialize", "display"} => (last.res.ok <=> last.sink = "accepts")
    /\ TotalOnIds

\* A number was handed to the deserialization of a kind whose table already
\* holds two texts, after an identifier had been returned to the caller.
C14_Witness ==
    /\ last.op = "deserialize"
    /\ last.input.type = "u64"
    /\ ~last.ok
    /\ Done
    /\ Cardinality(table[interner_name(last.kind)]) >= 2

\* C15: the default value is the identifier of the empty string.  default()
\* hands the empty text to intern, and once it has returned its result reads
\* "" and is the canonical entry of "" in the kind's table, equal to every
\* identifier new("") returned for the kind.
C15_DefaultIsEmpty ==
    last.op = "default"
        => /\ passed[Main] = <<>>
           /\ pc[Main] = "idle"
                 => /\ result[Main] # None
                    /\ Deref(heap, as_str(result[Main])) = <<>>
                    /\ Canonical(last.kind, <<>>) = {result[Main]}
                    /\ \A r \in ReturnedOf(last.kind) :
                          r.text = <<>> => IdEq(r.id, result[Main])

\* default() interned the empty string into a table that held another text.
C15_Witness ==
    /\ last.op = "default"
    /\ Done
    /\ slow[Main]
    /\ Cardinality(table[interner_name(last.kind)]) >= 2

\* C16: conversion from a borrowed or an owned text t is new(t).  The
\* conversion hands t unchanged to intern on the kind's table, and once it
\* has returned its result is the canonical entry of t, reads t, and equals
\* every identifier new(t) returned for the kind.
C16_FromIsNew ==
    last.op \in {"from_str", "from_string"}
        => /\ arg[Main] = [kind |-> last.kind, text |-> last.text]
           /\ passed[Main] = last.text
           /\ pc[Main] = "idle"
                 => /\ result[Main] # None
                    /\ Deref(heap, as_str(result[Main])) = last.text
                    /\ Canonical(last.kind, last.text) = {result[Main]}
                    /\ \A r \in ReturnedOf(last.kind) :
                          r.text = last.text => IdEq(r.id, result[Main])

\* A conversion of a text holding a NUL byte returned the identifier that an
\* earlier call had interned.
C16_Witness ==
    /\ last.op \in {"from_str", "from_string"}
    /\ \E i \in 1..Len(last.text) : last.text[i] = 0
    /\ Done
    /\ ~slow[Main]
    /\ Cardinality(table[interner_name(last.kind)]) >= 2

C18_KindsIndependent ==
    /\ \A th \in Threads : \A k \in Kinds :
          LET others == {o \in Threads \ {th} : pc[o] # "idle" /\ arg[o].kind = k}
          IN  others = {} =>
                /\ pc[th] = "idle" => \A t \in Texts : ENABLED new(th, k, t)
                /\ (pc[th] = "wlock" /\ arg[th].kind = k) => ENABLED WriteAcquire(th)
    /\ \A k1, k2 \in Kinds : \A th \in Threads :
          (pc[th] = "wheld" /\ arg[th].kind = k1 /\ k1 # k2) => th \notin rw[interner_name(k2)]

\* Two threads hold the write locks of two kinds at the same time.
C18_Witness ==
    \E th1, th2 \in Threads :
        /\ pc[th1] = "wheld" /\ pc[th2] = "wheld"
        /\ arg[th1].kind # arg[th2].kind

\* C19: a kind's table holds exactly one entry per distinct text interned for
\* the kind.  No two entries of a table have the same bytes, and the number
\* of entries is the number of distinct texts that calls of new() for the
\* kind have interned, under every interleaving.
C19_OneEntryPerText ==
    \A k \in Kinds :
        LET tbl == table[interner_name(k)]
        IN  /\ \A e1, e2 \in tbl : Deref(heap, e1) = Deref(heap, e2) => e1 = e2
            /\ Cardinality(tbl) = Cardinality({r.text : r \in ReturnedOf(k)})
            /\ \A r \in ReturnedOf(k) : Cardinality(Lookup(tbl, heap, r.text)) = 1

\* Two threads raced to intern the same text into a table that holds another
\* text too; both went through the write lock and both have returned.
C19_Witness ==
    \E th1, th2 \in Threads :
        /\ th1 # th2
        /\ Holds(th1) /\ Holds(th2)
        /\ arg[th1] = arg[th2]
        /\ slow[th1] /\ slow[th2]
        /\ Len(arg[th1].text) > 0
        /\ Cardinality(table[interner_name(arg[th1].kind)]) >= 2

\* C20: reflective assignment from a value of the same kind replaces the
\* target.  After apply(v), try_apply(v) or set(v) with v an identifier of
\* the target's kind, the target equals v and reads the same text view, and
\* the call returned Ok.
C20_ReflectAssigns ==
    (last.op \in {"apply", "try_apply", "set"} /\ last.value.type = type_path(slot.kind))
        => /\ IdEq(slot.id, last.value.id)
           /\ as_str(slot.id) = as_str(last.value.id)
           /\ Deref(heap, as_str(slot.id)) = Deref(heap, as_str(last.value.id))
           /\ last.res.ok

\* A non-empty identifier was assigned through try_apply to a target of its
\* kind while the kind's table held another identifier.
C20_Witness ==
    /\ last.op = "try_apply"
    /\ last.value.type = type_path(slot.kind)
    /\ last.res.ok
    /\ slot.id.len > 0
    /\ Cardinality(table[interner_name(slot.kind)]) >= 2

\* C21: try_apply with a value whose type is not the target's kind returns
\* Err(MismatchedTypes) naming the value's type path as from_type and the
\* target's as to_type, and leaves the target identifier as it was.
C21_TryApplyMismatch ==
    [][ (last'.op = "try_apply" /\ slot # None
            /\ last'.value.type # type_path(slot.kind))
          => /\ slot' = slot
             /\ ~last'.res.ok
             /\ last'.res.err = [variant |-> "MismatchedTypes",
                                 from_type |-> last'.value.type,
                                 to_type |-> type_path(slot.kind)]
      ]_vars

\* try_apply of an identifier of another kind and another text has returned
\* its error; the target still holds a non-empty identifier of its own kind.
C21_Witness ==
    /\ last.op = "try_apply"
    /\ ~last.res.ok
    /\ \E k \in Kinds \ {slot.kind} : last.value.type = type_path(k)
    /\ slot.id.len > 0
    /\ ~IdEq(slot.id, last.value.id)

\* C27: apply with a value whose type is not the target's kind is a silent
\* no-op: it returns nothing (no error) and the target identifier is exactly
\* what it was before the call.
C27_ApplyMismatchNoOp ==
    [][ (last'.op = "apply" /\ slot # None
            /\ last'.value.type # type_path(slot.kind))
          => /\ slot' = slot
             /\ last'.res = [ok |-> TRUE]
      ]_vars

\* apply of an identifier of another kind and another text has returned;
\* the target still holds a non-empty identifier of its own kind.
C27_Witness ==
    /\ last.op = "apply"
    /\ \E k \in Kinds \ {slot.kind} : last.value.type = type_path(k)
    /\ slot.id.len > 0
    /\ ~IdEq(slot.id, last.value.id)

\* The text an identifier at hand was built from.
TextOf(k, id) == {r.text : r \in {x \in ReturnedOf(k) : x.id = id}}

C23_ReflectPartialEq ==
    (last.op = "reflect_partial_eq" /\ last.value.type = type_path(last.kind))
        => /\ last.res.some
           /\ last.res.val <=> last.id = last.value.id
           /\ last.res.val <=> TextOf(last.kind, last.id) = TextOf(last.kind, last.value.id)
           /\ last.res.val = IdEq(last.id, last.value.id)

\* reflect_partial_eq has compared two identifiers of one kind whose texts
\* differ but have the same length.
C23_Witness ==
    /\ last.op = "reflect_partial_eq"
    /\ last.value.type = type_path(last.kind)
    /\ last.res = [some |-> TRUE, val |-> FALSE]
    /\ last.id.len > 0
    /\ last.id.len = last.value.id.len

\* C24: the derive generates a static interner unique to each type.  For any
\* two distinct struct names the generated static names (the struct name
\* uppercased, followed by _INTERNER) are distinct.
C24_InternerNamesDistinct ==
    (last.op = "derive" /\ last.before # None /\ last.before.name # last.name)
        => last.before.interner_name # last.interner_name

\* A thread enters new() for kind k in this step.
Enters(th, k) ==
    /\ pc[th] = "idle"
    /\ arg'[th] # None
    /\ arg'[th].kind = k
    /\ (arg'[th] # arg[th] \/ pc'[th] # pc[th] \/ result'[th] # result[th]
            \/ slow'[th] # slow[th])

\* C25: a kind's table is created once and lazily.  Before the first
\* construction of the kind the table is not created and holds no entry; a
\* step that enters new() for the kind leaves it created; only such a step
\* creates it; and a created table stays created and keeps every entry it
\* holds: it is never created again or replaced.
C25_CreatedOnceLazily ==
    [][ \A k \in Kinds :
            LET n == interner_name(k)
            IN  /\ ~created[n] => (table[n] = {} /\ ReturnedOf(k) = {})
                /\ (\E th \in Threads : Enters(th, k)) => created'[n]
                /\ (~created[n] /\ created'[n]) => \E th \in Threads : Enters(th, k)
                /\ created[n] => (created'[n] /\ table[n] \subseteq table'[n])
      ]_vars

\* One kind's table has been created and filled by several constructions
\* while no value of the other kind was ever constructed.
C25_Witness ==
    \E k1, k2 \in Kinds :
        /\ created[interner_name(k1)]
        /\ Cardinality(table[interner_name(k1)]) = Cardinality(Texts)
        /\ ~created[interner_name(k2)]
        /\ table[interner_name(k2)] = {}

\* C28: a failed deserialization interns nothing.  When the source value is
\* not a string the call returns its error without reaching new(): no table
\* is created or changed, nothing is allocated, no lock is taken and no
\* identifier is returned, in the failing call and until the next call.
C28_FailedDeserializeInternsNothing ==
    [][ (last'.op = "deserialize" /\ ~last'.ok)
          => /\ last'.input.type # "str"
             /\ UNCHANGED <<created, table, heap, rw, pc, arg, passed, slow,
                            result, returned>>
      ]_vars

\* A number was handed to the deserialization of a kind of which no value was
\* ever constructed, while the other kind's table holds entries: the kind's
\* table is still not created.
C28_Witness ==
    /\ last.op = "deserialize"
    /\ ~last.ok
    /\ last.input.type = "u64"
    /\ ~created[interner_name(last.kind)]
    /\ table[interner_name(last.kind)] = {}
    /\ \E k \in Kinds : Cardinality(table[interner_name(k)]) >= 2

\* The operations that read or assign identifiers without constructing one.
NonConstructing ==
    {"as_str", "deref", "eq", "hash", "display", "serialize", "clone", "let",
     "apply", "try_apply", "set", "from_reflect", "clone_value", "reflect_hash",
     "reflect_partial_eq"}

\* C26: only construction paths change a kind's table.  A step that creates a
\* table, adds an entry or allocates belongs to a call of new, a From
\* conversion, default or a successful deserialization; every step of as_str,
\* deref, equality, hashing, display, serialization, copy/clone, apply,
\* try_apply, set, from_reflect, clone_value, reflect_hash and
\* reflect_partial_eq, and of a failed deserialization, leaves every table,
\* its lock and the heap unchanged.
C26_OnlyConstructionChangesTables ==
    [][ /\ (table' # table \/ created' # created \/ heap' # heap \/ rw' # rw)
            => \/ last'.op \in Constructions
               \/ (last'.op = "deserialize" /\ last'.ok)
        /\ (last'.op \in NonConstructing \/ (last'.op = "deserialize" /\ ~last'.ok))
            => UNCHANGED <<created, table, heap, rw>>
      ]_vars

\* clone_value was called on an identifier while both kinds' tables hold
\* entries and a reflected target is set.
C26_Witness ==
    /\ last.op = "clone_value"
    /\ slot # None
    /\ \A k \in Kinds : table[interner_name(k)] # {}

\* Identifier id, a value of kind k, references an entry of k's table; when
\* it has an allocation of its own, no other kind's table holds that entry.
InOwnTable(k, id) ==
    /\ id \in table[interner_name(k)]
    /\ id.len > 0 => \A k2 \in Kinds \ {k} : id \notin table[interner_name(k2)]

\* The kinds whose type path is tp.
KindsOf(tp) == {k \in Kinds : type_path(k) = tp}

\* C29: every identifier value of kind K references an entry present in K's
\* own table: the identifiers new and deserialization returned, the target
\* that apply, try_apply and set assign, and the values copy, clone_value and
\* from_reflect return.
C29_ValuesReferenceOwnTable ==
    /\ \A v \in Ids : InOwnTable(v.kind, v.id)
    /\ (pc[Main] = "idle" /\ result[Main] # None) => InOwnTable(arg[Main].kind, result[Main])
    /\ slot # None => InOwnTable(slot.kind, slot.id)
    /\ last.op = "clone" => InOwnTable(last.kind, last.res)
    /\ last.op = "clone_value"
          => /\ KindsOf(last.res.type) = {last.kind}
             /\ InOwnTable(last.kind, last.res.id)
    /\ (last.op = "from_reflect" /\ last.res.some) => InOwnTable(last.kind, last.res.val)

\* from_reflect returned a non-empty identifier of a kind while the target
\* variable holds an identifier of the other kind.
C29_Witness ==
    /\ last.op = "from_reflect"
    /\ last.res.some
    /\ last.res.val.len > 0
    /\ slot # None
    /\ slot.kind # last.kind
    /\ slot.id.len > 0

====
